---- MODULE Spec2Model ----
(***************************************************************************)
(* Model of RedisSortedSetQueuePoller (src/redis_zset_based_poller.py).     *)
(*                                                                         *)
(* The store holds two sorted sets: the polling queue Q (_sorted_set_key)   *)
(* and its snapshot (_snapshot_key).  A sorted set is a function from the   *)
(* members it holds to their scores; a key whose set is empty does not      *)
(* exist.  Every store command is one atomic step.  redis.transaction(fn,   *)
(* keys) is the optimistic transaction of the store interface: WATCH keys,  *)
(* run fn (reads and commands sent to the client itself act at once,        *)
(* commands sent to the pipe are buffered), then EXEC, which applies the     *)
(* buffered commands atomically unless another client changed a watched     *)
(* key after the WATCH, in which case fn is run again from the start.       *)
(***************************************************************************)
EXTENDS Integers, Sequences, FiniteSets, TLC

\* ------------------------------------------------------------------ bounds
MaxScore == 2
Scores == 1..MaxScore
Members == {"x", "y"}
Workers == {"w1", "w2"}

\* store-native order of members (lexicographic order of the strings)
MemberRank == [m \in Members |-> IF m = "x" THEN 1 ELSE 2]

VARIABLES
    Q,                  \* sorted set at _sorted_set_key
    snapshot,           \* sorted set at _snapshot_key
    reverse,            \* self._reverse
    pc,                 \* position of each worker process
    next_item,          \* self._next_item: <<member, score>> or NoItem
    buf,                \* members whose ZREM is buffered in the pipe
    dirty,              \* a watched key was changed by another client
    elig,               \* what ready_to_process did in this attempt
    sleep_between_runs, \* local of _run
    qcard,              \* run(): the value zcard(Q) returned
    lost,               \* history: item a worker held claimed when it died
    returned,           \* history: results of dequeue() calls (harnesses)
    enqueued            \* history: what the enqueue() calls built (harness)

vars == <<Q, snapshot, reverse, pc, next_item, buf, dirty, elig,
          sleep_between_runs, qcard, lost, returned, enqueued>>

\* ------------------------------------------------------------ sorted sets
EmptyZSet == [m \in {} |-> 1]

AllZSets == UNION {[D -> Scores] : D \in SUBSET Members}

NoItem == <<>>

Member(item) == item[1]
Score(item) == item[2]

ZCard(z) == Cardinality(DOMAIN z)

Exists(z) == DOMAIN z # {}

ZAdd(z, score, member) ==
    [k \in (DOMAIN z) \cup {member} |-> IF k = member THEN score ELSE z[k]]

ZRem(z, member) == [k \in (DOMAIN z) \ {member} |-> z[k]]

\* item a precedes item b in the store's order: by score, then by member
Before(a, b) ==
    \/ Score(a) < Score(b)
    \/ Score(a) = Score(b) /\ MemberRank[Member(a)] < MemberRank[Member(b)]

Items(z) == {<<m, z[m]>> : m \in DOMAIN z}

\* zrange(key, 0, 0, withscores=True): the lowest item, as a list
ZRangeFirst(z) ==
    IF DOMAIN z = {} THEN <<>>
    ELSE <<CHOOSE a \in Items(z) : \A b \in Items(z) \ {a} : Before(a, b)>>

\* zrevrange(key, 0, 0, withscores=True): the highest item, as a list
ZRevRangeFirst(z) ==
    IF DOMAIN z = {} THEN <<>>
    ELSE <<CHOOSE a \in Items(z) : \A b \in Items(z) \ {a} : Before(b, a)>>

\* the additive merge a bug would do: dest is kept and scores are summed
ZUnionStoreKeepingDest(dest, src) ==
    [k \in (DOMAIN dest) \cup (DOMAIN src) |->
        IF k \in DOMAIN dest /\ k \in DOMAIN src THEN dest[k] + src[k]
        ELSE IF k \in DOMAIN dest THEN dest[k] ELSE src[k]]

\* a merge that keeps the members dest alone holds
ZUnionStoreAddingToDest(dest, src) ==
    [k \in (DOMAIN dest) \cup (DOMAIN src) |->
        IF k \in DOMAIN src THEN src[k] ELSE dest[k]]

\* zunionstore(dest, [src]): dest is overwritten by the union of the one
\* source, which is the source itself
ZUnionStore(dest, src) == src

\* --------------------------------------------------------------- workers
\* positions inside redis.transaction(_worker, Q, snapshot) after the WATCH
Watching == {"snap", "pred", "exec"}

\* positions inside run()'s recovery, before _run() is entered
RecoveryPcs == {"start", "zcard_q", "zcard_s", "recover"}

\* positions inside the try block of run() (the body of _run)
RunPcs == {"loop", "sleep", "watch", "snap", "pred", "exec",
           "ret", "process", "cleanup"}

\* positions at which dequeue() has returned to _run and the iteration is
\* not over
HoldingPcs == {"ret", "process", "cleanup"}

\* a write by actor that changed a watched key invalidates the transactions
\* of the other clients that watch it
Touch(actor, changed) ==
    [v \in Workers |->
        dirty[v] \/ (changed /\ v # actor /\ pc[v] \in Watching)]

\* run() has finished its recovery: _run() is entered and makes its first
\* two assignments
EnterRun(w) ==
    /\ sleep_between_runs' = [sleep_between_runs EXCEPT ![w] = FALSE]
    /\ next_item' = [next_item EXCEPT ![w] = NoItem]
    /\ lost' = [lost EXCEPT ![w] = NoItem]
    /\ pc' = [pc EXCEPT ![w] = "loop"]

\* the probe run() makes first: self._redis.exists(self._snapshot_key)
RecoveryExists(w) ==
    /\ pc[w] = "start"
    /\ IF Exists(snapshot)
       THEN /\ pc' = [pc EXCEPT ![w] = "zcard_q"]
            /\ UNCHANGED <<next_item, sleep_between_runs, lost>>
       ELSE EnterRun(w)
    /\ UNCHANGED <<Q, snapshot, reverse, buf, dirty, elig, qcard>>

\* self._redis.zcard(self._sorted_set_key)
RecoveryZCardQ(w) ==
    /\ pc[w] = "zcard_q"
    /\ qcard' = [qcard EXCEPT ![w] = ZCard(Q)]
    /\ pc' = [pc EXCEPT ![w] = "zcard_s"]
    /\ UNCHANGED <<Q, snapshot, reverse, next_item, buf, dirty, elig,
                   sleep_between_runs, lost>>

\* a test that always asks for the recovery
NeedsRecoveryAlways(cardQ, cardSnapshot) == TRUE

\* the test run() makes on the two cardinalities
NeedsRecovery(cardQ, cardSnapshot) == cardQ # cardSnapshot

\* self._redis.zcard(self._snapshot_key) and the comparison of the two
RecoveryZCardSnapshot(w) ==
    /\ pc[w] = "zcard_s"
    /\ IF NeedsRecovery(qcard[w], ZCard(snapshot))
       THEN /\ pc' = [pc EXCEPT ![w] = "recover"]
            /\ UNCHANGED <<next_item, sleep_between_runs, lost>>
       ELSE EnterRun(w)
    /\ qcard' = [qcard EXCEPT ![w] = 0]
    /\ UNCHANGED <<Q, snapshot, reverse, buf, dirty, elig>>

\* self._redis.zunionstore(self._sorted_set_key, [self._snapshot_key])
RecoveryMerge(w) ==
    /\ pc[w] = "recover"
    /\ Q' = ZUnionStore(Q, snapshot)
    /\ dirty' = Touch(w, Exists(Q) \/ Exists(snapshot))
    /\ EnterRun(w)
    /\ UNCHANGED <<snapshot, reverse, buf, elig, qcard>>

\* dequeue() is entered: self._next_item = (None, None), and
\* redis.transaction is called.  (sleep_between_runs has been read by the
\* loop and is assigned on every path before it is read again: its value is
\* dropped here rather than carried through the iteration.)
DequeueEntry(w) ==
    /\ next_item' = [next_item EXCEPT ![w] = NoItem]
    /\ sleep_between_runs' = [sleep_between_runs EXCEPT ![w] = FALSE]
    /\ pc' = [pc EXCEPT ![w] = "watch"]

\* a loop that never sleeps
LoopTopNoSleep(w) ==
    /\ pc[w] = "loop"
    /\ DequeueEntry(w)
    /\ UNCHANGED <<Q, snapshot, reverse, buf, dirty, elig, qcard, lost>>

\* top of the while loop: sleep first when the last iteration asked for it,
\* call dequeue() otherwise
LoopTop(w) ==
    /\ pc[w] = "loop"
    /\ IF sleep_between_runs[w]
       THEN /\ pc' = [pc EXCEPT ![w] = "sleep"]
            /\ UNCHANGED <<next_item, sleep_between_runs>>
       ELSE DequeueEntry(w)
    /\ UNCHANGED <<Q, snapshot, reverse, buf, dirty, elig, qcard, lost>>

\* time.sleep(self._sleep_duration) returns and dequeue() is called
Sleep(w) ==
    /\ pc[w] = "sleep"
    /\ DequeueEntry(w)
    /\ UNCHANGED <<Q, snapshot, reverse, buf, dirty, elig, qcard, lost>>

\* a poller that always reads the low end
PeekListLowEnd(z, rev) == ZRangeFirst(z)

\* getattr(pipe, method)(key, 0, 0, withscores=True)
PeekList(z, rev) == IF rev THEN ZRevRangeFirst(z) ELSE ZRangeFirst(z)

\* an attempt that copies Q to the snapshot before it looks at Q
WatchSnapshotFirst(w) ==
    /\ pc[w] = "watch"
    /\ snapshot' = ZUnionStore(snapshot, Q)
    /\ dirty' = [Touch(w, Exists(snapshot) \/ Exists(Q)) EXCEPT ![w] = FALSE]
    /\ buf' = [buf EXCEPT ![w] = {}]
    /\ elig' = [elig EXCEPT ![w] = "unknown"]
    /\ LET l == PeekList(Q, reverse) IN
         IF l = <<>>
         THEN /\ pc' = [pc EXCEPT ![w] = "exec"]
              /\ UNCHANGED next_item
         ELSE /\ next_item' = [next_item EXCEPT ![w] = l[Len(l)]]
              /\ pc' = [pc EXCEPT ![w] = "pred"]
    /\ UNCHANGED <<Q, reverse, sleep_between_runs, qcard, lost>>

\* an attempt of the transaction starts: WATCH Q snapshot, then _worker
\* reads the extreme item: self._next_item = <list>[-1]; on the empty list
\* IndexError is raised before the assignment and the handler only logs.
\* (A write between the WATCH and the read makes the attempt fail like a
\* write after the read, so the two commands are one step.)
Watch(w) ==
    /\ pc[w] = "watch"
    /\ dirty' = [dirty EXCEPT ![w] = FALSE]
    /\ buf' = [buf EXCEPT ![w] = {}]
    /\ elig' = [elig EXCEPT ![w] = "unknown"]
    /\ LET l == PeekList(Q, reverse) IN
         IF l = <<>>
         THEN /\ pc' = [pc EXCEPT ![w] = "exec"]
              /\ UNCHANGED next_item
         ELSE /\ next_item' = [next_item EXCEPT ![w] = l[Len(l)]]
              /\ pc' = [pc EXCEPT ![w] = "snap"]
    /\ UNCHANGED <<Q, snapshot, reverse, sleep_between_runs, qcard, lost>>

\* self._redis.zunionstore(self._snapshot_key, [self._sorted_set_key]):
\* sent to the client, not to the pipe, so it acts at once
Snap(w) ==
    /\ pc[w] = "snap"
    /\ snapshot' = ZUnionStore(snapshot, Q)
    /\ dirty' = Touch(w, Exists(snapshot) \/ Exists(Q))
    /\ pc' = [pc EXCEPT ![w] = "pred"]
    /\ UNCHANGED <<Q, reverse, next_item, buf, elig,
                   sleep_between_runs, qcard, lost>>

\* a branch on False that keeps the peeked item
AfterPredicateKeepingItem(item, outcome) ==
    [item |-> item,
     zrem |-> IF outcome = "true" THEN {Member(item)} ELSE {}]

\* the branch taken on the value of ready_to_process: the zrem is buffered
\* in the pipe, (None, None) is stored, or the error is logged
AfterPredicate(item, outcome) ==
    [item |-> IF outcome = "false" THEN NoItem ELSE item,
     zrem |-> IF outcome = "true" THEN {Member(item)} ELSE {}]

\* self.ready_to_process(...) returns True or False, or raises
Pred(w, outcome) ==
    /\ pc[w] = "pred"
    /\ elig' = [elig EXCEPT ![w] = outcome]
    /\ next_item' = [next_item EXCEPT ![w] =
                        AfterPredicate(next_item[w], outcome).item]
    /\ buf' = [buf EXCEPT ![w] = AfterPredicate(next_item[w], outcome).zrem]
    /\ pc' = [pc EXCEPT ![w] = "exec"]
    /\ UNCHANGED <<Q, snapshot, reverse, dirty,
                   sleep_between_runs, qcard, lost>>

\* the sorted set after the buffered ZREMs are applied
ApplyZRem(z, ms) == [k \in (DOMAIN z) \ ms |-> z[k]]

\* pipe.execute(): WatchError and a new attempt when a watched key was
\* changed, otherwise the buffered commands are applied and dequeue() returns
\* (that the predicate raised in the committed attempt is remembered in elig
\* until the iteration of _run is over)
Exec(w) ==
    /\ pc[w] = "exec"
    /\ IF dirty[w]
       THEN /\ pc' = [pc EXCEPT ![w] = "watch"]
            /\ UNCHANGED <<Q, dirty>>
       ELSE /\ Q' = ApplyZRem(Q, buf[w])
            /\ dirty' = Touch(w, buf[w] \cap DOMAIN Q # {})
            /\ pc' = [pc EXCEPT ![w] = "ret"]
    /\ buf' = [buf EXCEPT ![w] = {}]
    /\ elig' = [elig EXCEPT ![w] =
                  IF pc'[w] = "ret" /\ elig[w] = "raised"
                  THEN "raised" ELSE "unknown"]
    /\ UNCHANGED <<snapshot, reverse, next_item,
                   sleep_between_runs, qcard, lost>>

\* what dequeue() returns: self._next_item[1], self._next_item[0]
\* (NoResult stands for the pair (None, None))
NoResult == <<>>

DequeueResult(item) ==
    IF item = NoItem THEN NoResult ELSE <<Score(item), Member(item)>>

\* _run: score, member = self.dequeue(); if score is not None
AfterDequeue(w) ==
    /\ pc[w] = "ret"
    /\ IF DequeueResult(next_item[w]) # NoResult
       THEN /\ pc' = [pc EXCEPT ![w] = "process"]
            /\ UNCHANGED <<next_item, sleep_between_runs>>
       ELSE /\ sleep_between_runs' = [sleep_between_runs EXCEPT ![w] = TRUE]
            /\ next_item' = [next_item EXCEPT ![w] = NoItem]
            /\ pc' = [pc EXCEPT ![w] = "loop"]
    /\ elig' = [elig EXCEPT ![w] =
                  IF pc'[w] = "loop" THEN "unknown" ELSE elig[w]]
    /\ UNCHANGED <<Q, snapshot, reverse, buf, dirty, qcard, lost>>

\* the item _run holds after an Exception of self.process: the handler
\* does not reach self._next_item = (None, None)
AfterProcessError(item) == item

\* self.process(score, member) returns, or raises an Exception that the
\* handler of _run logs
Process(w, outcome) ==
    /\ pc[w] = "process"
    /\ IF outcome = "ok"
       THEN /\ sleep_between_runs' = [sleep_between_runs EXCEPT ![w] = FALSE]
            /\ pc' = [pc EXCEPT ![w] = "cleanup"]
            /\ UNCHANGED next_item
       ELSE /\ sleep_between_runs' = [sleep_between_runs EXCEPT ![w] = TRUE]
            /\ next_item' = [next_item EXCEPT ![w] =
                                AfterProcessError(next_item[w])]
            /\ pc' = [pc EXCEPT ![w] = "loop"]
    /\ elig' = [elig EXCEPT ![w] =
                  IF pc'[w] = "loop" THEN "unknown" ELSE elig[w]]
    /\ UNCHANGED <<Q, snapshot, reverse, buf, dirty, qcard, lost>>

\* self._redis.zrem(self._snapshot_key, member); self._next_item = (None, None)
Cleanup(w) ==
    /\ pc[w] = "cleanup"
    /\ snapshot' = ZRem(snapshot, DequeueResult(next_item[w])[2])
    /\ dirty' = Touch(w, DequeueResult(next_item[w])[2] \in DOMAIN snapshot)
    /\ next_item' = [next_item EXCEPT ![w] = NoItem]
    /\ pc' = [pc EXCEPT ![w] = "loop"]
    /\ elig' = [elig EXCEPT ![w] = "unknown"]
    /\ UNCHANGED <<Q, reverse, buf, sleep_between_runs, qcard, lost>>

\* enqueue(score, member): pipe.zadd(key, score, member) in a transaction
\* of its own
EnqueueQ(z, score, member) == ZAdd(z, score, member)

\* KeyboardInterrupt is raised somewhere inside _run(); it is no Exception,
\* so only the handler of run() catches it (the pipe is reset on the way
\* out): the item is enqueued again when self._next_item[0] is not None,
\* then run() returns and the state of the poller is of no more use
Shutdown(w) ==
    /\ pc[w] \in RunPcs
    /\ IF next_item[w] # NoItem
       THEN /\ Q' = EnqueueQ(Q, Score(next_item[w]), Member(next_item[w]))
            /\ dirty' = [Touch(w, Q' # Q) EXCEPT ![w] = FALSE]
       ELSE /\ Q' = Q
            /\ dirty' = [dirty EXCEPT ![w] = FALSE]
    /\ buf' = [buf EXCEPT ![w] = {}]
    /\ elig' = [elig EXCEPT ![w] = "unknown"]
    /\ pc' = [pc EXCEPT ![w] = "done"]
    /\ next_item' = [next_item EXCEPT ![w] = NoItem]
    /\ sleep_between_runs' = [sleep_between_runs EXCEPT ![w] = FALSE]
    /\ UNCHANGED <<snapshot, reverse, qcard, lost>>

\* the process dies (or has returned from run()) and is started again; all
\* of its state is gone, the store keeps its contents.  With track, the
\* item it held claimed (out of Q, in the snapshot) is remembered in lost.
Crash(w, track) ==
    /\ pc[w] # "start"
    /\ lost' = [lost EXCEPT ![w] =
                  IF /\ track
                     /\ pc[w] \in HoldingPcs
                     /\ next_item[w] # NoItem
                     /\ Member(next_item[w]) \notin DOMAIN Q
                     /\ Member(next_item[w]) \in DOMAIN snapshot
                  THEN next_item[w]
                  ELSE IF pc[w] \in RecoveryPcs THEN lost[w]
                  ELSE NoItem]
    /\ pc' = [pc EXCEPT ![w] = "start"]
    /\ next_item' = [next_item EXCEPT ![w] = NoItem]
    /\ buf' = [buf EXCEPT ![w] = {}]
    /\ dirty' = [dirty EXCEPT ![w] = FALSE]
    /\ elig' = [elig EXCEPT ![w] = "unknown"]
    /\ sleep_between_runs' = [sleep_between_runs EXCEPT ![w] = FALSE]
    /\ qcard' = [qcard EXCEPT ![w] = 0]
    /\ UNCHANGED <<Q, snapshot, reverse>>

\* a producer calls enqueue(score, member)
Enqueue(score, member) ==
    /\ Q' = EnqueueQ(Q, score, member)
    /\ dirty' = Touch("producer", Q' # Q)
    /\ UNCHANGED <<snapshot, reverse, pc, next_item, buf, elig,
                   sleep_between_runs, qcard, lost>>

\* ------------------------------------------------------- the whole system
PredOutcomes == {"true", "false", "raised"}
ProcessOutcomes == {"ok", "raised"}

Local(start) ==
    /\ pc = [w \in Workers |-> start]
    /\ next_item = [w \in Workers |-> NoItem]
    /\ buf = [w \in Workers |-> {}]
    /\ dirty = [w \in Workers |-> FALSE]
    /\ elig = [w \in Workers |-> "unknown"]
    /\ sleep_between_runs = [w \in Workers |-> FALSE]
    /\ qcard = [w \in Workers |-> 0]
    /\ lost = [w \in Workers |-> NoItem]
    /\ returned = <<>>
    /\ enqueued = EmptyZSet

\* nothing was ever enqueued and no worker has started
Init ==
    /\ Q = EmptyZSet
    /\ snapshot = EmptyZSet
    /\ reverse \in BOOLEAN
    /\ Local("start")

\* dequeue() between its entry and its return
DequeueStep(w, outcomes) ==
    \/ Watch(w)
    \/ Snap(w)
    \/ \E o \in outcomes : Pred(w, o)
    \/ Exec(w)

\* run() of one worker process
RunStep(w) ==
    \/ RecoveryExists(w)
    \/ RecoveryZCardQ(w)
    \/ RecoveryZCardSnapshot(w)
    \/ RecoveryMerge(w)
    \/ LoopTop(w)
    \/ Sleep(w)
    \/ DequeueStep(w, PredOutcomes)
    \/ AfterDequeue(w)
    \/ \E o \in ProcessOutcomes : Process(w, o)
    \/ Cleanup(w)
    \/ Shutdown(w)

Producer == \E s \in Scores, m \in Members : Enqueue(s, m)

Next ==
    /\ \/ \E w \in Workers : RunStep(w) \/ Crash(w, FALSE)
       \/ Producer
    /\ UNCHANGED <<returned, enqueued>>

Spec == Init /\ [][Next]_vars

\* ------------------------------------------------ harnesses around dequeue
\* a caller outside _run calls dequeue() again, unless its last call
\* returned (None, None)
Call(w) ==
    /\ pc[w] = "ret"
    /\ \A i \in DOMAIN returned : returned[i] # <<w, NoResult>>
    /\ DequeueEntry(w)
    /\ UNCHANGED <<Q, snapshot, reverse, buf, dirty, elig, qcard, lost>>

\* the history of dequeue() calls: who was returned what, in order
LogReturn ==
    IF \E w \in Workers : pc[w] = "exec" /\ pc'[w] = "ret"
    THEN LET w == CHOOSE v \in Workers : pc[v] = "exec" /\ pc'[v] = "ret"
         IN  Append(returned, <<w, DequeueResult(next_item'[w])>>)
    ELSE returned

\* the store holds a queue that producers filled, each member once, and no
\* snapshot yet
InitFilled(start) ==
    /\ Q \in AllZSets
    /\ snapshot = EmptyZSet
    /\ reverse \in BOOLEAN
    /\ Local(start)

\* several workers call dequeue() over and over; the predicate says yes
RaceNext ==
    /\ \E w \in Workers : Call(w) \/ DequeueStep(w, {"true"})
    /\ returned' = LogReturn
    /\ UNCHANGED enqueued

SpecRace == InitFilled("ret") /\ [][RaceNext]_vars

\* one caller: enqueue() calls before its first dequeue() call
SeqEnqueue(score, member) ==
    /\ pc["w1"] = "ret"
    /\ returned = <<>>
    /\ Enqueue(score, member)
    /\ enqueued' = EnqueueQ(enqueued, score, member)
    /\ UNCHANGED returned

SeqDequeue ==
    /\ Call("w1") \/ DequeueStep("w1", {"true"})
    /\ returned' = LogReturn
    /\ UNCHANGED enqueued

SeqNext ==
    \/ \E s \in Scores, m \in Members : SeqEnqueue(s, m)
    \/ SeqDequeue

InitSeq ==
    /\ Q = EmptyZSet
    /\ snapshot = EmptyZSet
    /\ reverse \in BOOLEAN
    /\ Local("ret")

SpecSeq == InitSeq /\ [][SeqNext]_vars

\* ------------------------------------------------ one worker and its store
\* one poller process: it runs, may be interrupted, may die, is restarted
SoloStep == RunStep("w1") \/ Crash("w1", TRUE)

\* nobody else uses the store
SoloNext ==
    /\ SoloStep
    /\ UNCHANGED <<returned, enqueued>>

SpecSolo == InitFilled("start") /\ [][SoloNext]_vars

\* producers enqueue while the one poller runs
SoloProducerNext ==
    /\ SoloStep \/ Producer
    /\ UNCHANGED <<returned, enqueued>>

SpecSoloProducer == Init /\ [][SoloProducerNext]_vars

\* the history of failed work: the items for which process raised and has
\* not returned normally since
LogFailure ==
    IF pc["w1"] = "process" /\ pc'["w1"] = "loop"
    THEN IF \E i \in DOMAIN returned : returned[i] = next_item["w1"]
         THEN returned
         ELSE Append(returned, next_item["w1"])
    ELSE IF pc["w1"] = "cleanup" /\ pc'["w1"] = "loop"
    THEN SelectSeq(returned,
                   LAMBDA it : Member(it) # Member(next_item["w1"]))
    ELSE returned

\* the one poller and its store, with the history of its failed work
SoloFailureNext ==
    /\ SoloStep
    /\ returned' = LogFailure
    /\ UNCHANGED enqueued

SpecSoloFailure == InitFilled("start") /\ [][SoloFailureNext]_vars

\* --------------------------------------------------- recovery, run by run
MaxRuns == 2

\* any contents of the queue and of the snapshot
InitRecovery ==
    /\ Q \in AllZSets
    /\ snapshot \in AllZSets
    /\ reverse \in BOOLEAN
    /\ pc = [w \in Workers |-> "start"]
    /\ next_item = [w \in Workers |-> NoItem]
    /\ buf = [w \in Workers |-> {}]
    /\ dirty = [w \in Workers |-> FALSE]
    /\ elig = [w \in Workers |-> "unknown"]
    /\ sleep_between_runs = [w \in Workers |-> FALSE]
    /\ qcard = [w \in Workers |-> 0]
    /\ lost = [w \in Workers |-> NoItem]
    /\ returned = <<>>
    /\ enqueued = Q

\* the recovery of run(), command by command
RecoveryStep(w) ==
    \/ RecoveryExists(w)
    \/ RecoveryZCardQ(w)
    \/ RecoveryZCardSnapshot(w)
    \/ RecoveryMerge(w)

\* the history of recoveries: the store as each one left it
LogRecovery ==
    IF \E w \in Workers : pc[w] \in RecoveryPcs /\ pc'[w] = "loop"
    THEN Append(returned, <<Q', snapshot'>>)
    ELSE returned

\* run() is started again as soon as its recovery is over
RunAgain(w) ==
    /\ pc[w] = "loop"
    /\ Len(returned) < MaxRuns
    /\ Crash(w, FALSE)

RecoveryNext ==
    /\ RecoveryStep("w1") \/ RunAgain("w1")
    /\ returned' = LogRecovery
    /\ UNCHANGED enqueued

SpecRecovery == InitRecovery /\ [][RecoveryNext]_vars

\* ------------------------------------------------------------------ claims
\* C1: a member is returned by dequeue() to at most one of the workers that
\* call dequeue() on the same queue (predicate true, each member enqueued
\* once).
C1_MutualExclusion ==
    \A i, j \in DOMAIN returned :
        (/\ returned[i][2] # NoResult
         /\ returned[j][2] # NoResult
         /\ returned[i][2][2] = returned[j][2][2])
        => returned[i][1] = returned[j][1]

\* the order in which the poller is configured to claim
ClaimedBefore(r1, r2) ==
    IF reverse THEN Before(<<r2[2], r2[1]>>, <<r1[2], r1[1]>>)
    ELSE Before(<<r1[2], r1[1]>>, <<r2[2], r2[1]>>)

\* C6: after a sequence of enqueue() calls, the dequeue() calls of the only
\* actor return the enqueued members in strict store order (by score, ties by
\* member; the other way round when reverse), each with its score and each
\* once, and (None, None) only when all of them have been returned.
C6_ClaimOrder ==
    /\ \A i, j \in DOMAIN returned :
          (i < j /\ returned[i][2] # NoResult /\ returned[j][2] # NoResult)
          => ClaimedBefore(returned[i][2], returned[j][2])
    /\ \A i \in DOMAIN returned :
          IF returned[i][2] = NoResult
          THEN /\ i = Len(returned)
               /\ {returned[k][2][2] : k \in 1..(i - 1)} = DOMAIN enqueued
          ELSE /\ returned[i][2][2] \in DOMAIN enqueued
               /\ enqueued[returned[i][2][2]] = returned[i][2][1]
               /\ \A m \in DOMAIN Q : ClaimedBefore(returned[i][2], <<Q[m], m>>)

\* two members of equal score were returned in member order, then
\* (None, None)
C6_Witness ==
    /\ Len(returned) = 3
    /\ returned[3][2] = NoResult
    /\ returned[1][2][1] = returned[2][2][1]
    /\ reverse

\* the step with which worker w ends the recovery of run()
RecoveryEnds(w) == pc[w] \in RecoveryPcs /\ pc'[w] = "loop"

\* C2: when a worker died holding a claimed item (out of Q, in the
\* snapshot), the recovery of its next run() puts the member back into Q
\* with its score and leaves Q and the snapshot with equal cardinalities
\* (stated for the runs in which nobody else has put the member back).
C2_CrashRecovery ==
    [][\A w \in Workers :
          (/\ RecoveryEnds(w)
           /\ lost[w] # NoItem
           /\ Member(lost[w]) \notin DOMAIN Q)
          => /\ Member(lost[w]) \in DOMAIN Q'
             /\ Q'[Member(lost[w])] = Score(lost[w])
             /\ ZCard(Q') = ZCard(snapshot')]_vars

\* C5: when the process callback has returned for a member, the snapshot
\* cleanup of that iteration leaves the member neither in Q nor in the
\* snapshot (one worker, no producer).
C5_ProcessedIsGone ==
    [][\A w \in Workers :
          (pc[w] = "cleanup" /\ pc'[w] = "loop")
          => /\ Member(next_item[w]) \notin DOMAIN Q'
             /\ Member(next_item[w]) \notin DOMAIN snapshot']_vars

\* C9: a recovery that follows a recovery with nothing in between leaves Q
\* and the snapshot as the first one left them.
C9_RecoveryIdempotent ==
    \A i \in DOMAIN returned : returned[i] = returned[1]

\* a second recovery has run after a first one that replaced Q
C9_Witness ==
    /\ Len(returned) = 2
    /\ returned[1][1] # enqueued

\* no worker is between the entry and the return of dequeue()
Quiescent == \A w \in Workers : pc[w] \notin Watching \cup {"watch"}

\* members dequeue() has returned to a worker whose iteration is not over
InFlight ==
    {Member(next_item[w]) :
        w \in {v \in Workers : pc[v] \in HoldingPcs /\ next_item[v] # NoItem}}

\* members a dead worker held claimed, until the next recovery is over
Orphaned == {Member(lost[w]) : w \in {v \in Workers : lost[v] # NoItem}}

\* the last clause of C3 alone: what a worker holds is in the snapshot
C3_InFlightInSnapshot == Quiescent => InFlight \subseteq DOMAIN snapshot

\* C3 (invariant I2): in every quiescent state the members of the snapshot
\* include those of Q, and those in the snapshot but not in Q are exactly the
\* members claimed and not yet finished.
C3_SnapshotInvariant ==
    Quiescent =>
        /\ DOMAIN Q \subseteq DOMAIN snapshot
        /\ (DOMAIN snapshot) \ (DOMAIN Q) = InFlight

\* C4 (invariant I3): in every quiescent state Q and the snapshot have equal
\* cardinalities exactly when no member is claimed and unfinished, by a
\* running worker or by one that died.
C4_CardinalityInvariant ==
    Quiescent =>
        ((ZCard(Q) = ZCard(snapshot)) <=> (InFlight \cup Orphaned = {}))

\* the step with which dequeue() of worker w returns, the predicate having
\* said verdict in the attempt that was committed
Returns(w, verdict) == pc[w] = "exec" /\ pc'[w] = "ret" /\ elig[w] = verdict

\* what C7 says of the call itself: a dequeue() that commits with an
\* eligible extreme item (s, m) of Q returns (s, m), leaves Q without m and
\* otherwise as it was, and leaves the snapshot equal to Q as it was,
\* scores included, so with m in it.
SnapshotBeforeRemove(w) ==
    Returns(w, "true")
    => /\ PeekList(Q, reverse) # <<>>
       /\ next_item'[w] = PeekList(Q, reverse)[1]
       /\ DequeueResult(next_item'[w])
              = <<Q[Member(next_item'[w])], Member(next_item'[w])>>
       /\ Q' = ZRem(Q, Member(next_item'[w]))
       /\ snapshot' = Q
       /\ Member(next_item'[w]) \in DOMAIN snapshot'

\* what C7 says of the time after the call: the member stays in the
\* snapshot while its processing is not complete
StaysInSnapshot(w) ==
    (/\ pc[w] \in {"ret", "process"}
     /\ pc'[w] \in {"ret", "process"}
     /\ next_item[w] # NoItem
     /\ Member(next_item[w]) \in DOMAIN snapshot)
    => Member(next_item[w]) \in DOMAIN snapshot'

\* the first half of C7 holds of every dequeue() of every worker
C7_CallPostcondition == [][\A w \in Workers : SnapshotBeforeRemove(w)]_vars

\* C7: dequeue() on a Q whose extreme item (s, m) is eligible returns
\* (s, m), Q is then Q as it was minus m, the snapshot is Q as it was, and m
\* stays in the snapshot until its processing completes.
C7_SnapshotBeforeRemove ==
    [][\A w \in Workers : SnapshotBeforeRemove(w) /\ StaysInSnapshot(w)]_vars

\* C8: KeyboardInterrupt arriving while the process callback runs on the
\* item (s, m): when run() returns Q holds m with score s and the snapshot
\* still holds m.
C8_GracefulShutdown ==
    [][\A w \in Workers :
          (pc[w] = "process" /\ pc'[w] = "done")
          => /\ Member(next_item[w]) \in DOMAIN Q'
             /\ Q'[Member(next_item[w])] = Score(next_item[w])
             /\ Member(next_item[w]) \in DOMAIN snapshot']_vars

\* C10: when the predicate says no to the peeked item, dequeue() returns
\* (None, None) and neither the predicate's branch nor the end of the
\* transaction changes Q.
C10_IneligibleStays ==
    [][\A w \in Workers :
          /\ (pc[w] = "pred" /\ pc'[w] = "exec" /\ elig'[w] = "false")
             => Q' = Q /\ buf'[w] = {}
          /\ (pc[w] = "exec" /\ pc'[w] \in {"ret", "watch"} /\ elig[w] = "false")
             => Q' = Q
          /\ Returns(w, "false")
             => DequeueResult(next_item'[w]) = NoResult]_vars

\* the predicate has said no to the peeked item, which is in Q, and
\* dequeue() is about to return
C10_Witness ==
    \E w \in Workers :
        /\ pc[w] = "exec"
        /\ elig[w] = "false"
        /\ ~dirty[w]
        /\ next_item[w] = NoItem
        /\ DOMAIN Q # {}

\* what C11 asks of the steps of worker w: an error of the predicate or of
\* process keeps the worker in its loop, the item of that iteration is not
\* handed on as claimed nor cleaned up as processed, and the iteration ends
\* with the backoff flag set
FailureContained(w) ==
    /\ (pc[w] = "pred" /\ elig'[w] = "raised") => pc'[w] = "exec"
    /\ (pc[w] = "ret" /\ elig[w] = "raised") => pc'[w] # "process"
    /\ (pc[w] \in HoldingPcs /\ elig[w] = "raised" /\ pc'[w] = "loop")
          => sleep_between_runs'[w]
    /\ (pc[w] = "process" /\ pc'[w] = "loop")
          => /\ sleep_between_runs'[w]
             /\ snapshot' = snapshot
             /\ Q' = Q

\* C11: when the predicate or the process callback raises, the run loop
\* goes on, the item is not treated as processed in that iteration, and the
\* next iteration comes after the backoff sleep.
C11_FailureContainment == [][\A w \in Workers : FailureContained(w)]_vars

\* the first recovery of the run found a snapshot and two cardinalities
\* that differ, and is over (enqueued is Q as that recovery found it)
RecoveryFired ==
    /\ Len(returned) >= 1
    /\ Exists(snapshot)
    /\ NeedsRecovery(ZCard(enqueued), ZCard(snapshot))

\* C12 as stated: a recovery that fires leaves in Q the sum-of-scores union
\* of Q and the snapshot, and leaves the snapshot as it was.
C12_RecoveryAdditive ==
    RecoveryFired
    => returned[1] = <<ZUnionStoreKeepingDest(enqueued, snapshot), snapshot>>

\* C12 (amended): a recovery that fires leaves Q equal to the snapshot,
\* members and scores, whatever Q held, and leaves the snapshot as it was.
C12_RecoveryReplaces == RecoveryFired => returned[1] = <<snapshot, snapshot>>

\* a recovery has fired on a Q that shared a member with the snapshot and
\* held one the snapshot did not hold
C12_Witness ==
    /\ RecoveryFired
    /\ (DOMAIN enqueued) \ (DOMAIN snapshot) # {}
    /\ (DOMAIN enqueued) \cap (DOMAIN snapshot) # {}
    /\ returned[1][1] = snapshot

\* C13: a member for which process raised, and has not succeeded since, is
\* in the snapshot until a recovery has put it back into Q: it is never
\* absent from both Q and the snapshot.
C13_FailedWorkKept ==
    \A i \in DOMAIN returned :
        \/ Member(returned[i]) \in DOMAIN snapshot
        \/ Member(returned[i]) \in DOMAIN Q

\* C14: what dequeue() returns is decided by the attempt that is committed
\* alone: the extreme item of Q when that attempt found it eligible, and
\* (None, None) when that attempt found Q empty or the item ineligible, also
\* after attempts that were discarded.
C14_RetryFromScratch ==
    [][\A w \in Workers :
          /\ (Returns(w, "unknown") \/ Returns(w, "false"))
                => DequeueResult(next_item'[w]) = NoResult
          /\ Returns(w, "true")
                => /\ PeekList(Q, reverse) # <<>>
                   /\ next_item'[w] = PeekList(Q, reverse)[1]]_vars

\* C15: dequeue() returns an item (s, m) only when this call has removed m
\* from Q; whenever it has removed nothing (the predicate said no or
\* raised, or the body failed otherwise) it returns (None, None), so that
\* process is not called for a member that is still in Q.
C15_ReturnedOnlyIfRemoved ==
    [][\A w \in Workers :
          (/\ pc[w] = "exec"
           /\ pc'[w] = "ret"
           /\ DequeueResult(next_item'[w]) # NoResult)
          => /\ Member(next_item'[w]) \in DOMAIN Q
             /\ Member(next_item'[w]) \notin DOMAIN Q']_vars

\* what C16 asks of the steps of worker w inside dequeue(): an attempt that
\* finds Q empty goes to its end without calling the predicate and without
\* writing, and the call that has seen no item returns (None, None) with Q
\* and the snapshot as they were
EmptyQueueLeftAlone(w) ==
    /\ (pc[w] = "watch" /\ pc'[w] \in Watching /\ Q = EmptyZSet)
          => /\ pc'[w] = "exec"
             /\ elig'[w] = "unknown"
             /\ next_item'[w] = next_item[w]
             /\ Q' = Q
             /\ snapshot' = snapshot
    /\ (/\ pc[w] = "exec"
        /\ pc'[w] = "ret"
        /\ elig[w] = "unknown"
        /\ next_item[w] = NoItem)
          => /\ DequeueResult(next_item'[w]) = NoResult
             /\ Q' = Q
             /\ Q = EmptyZSet
             /\ snapshot' = snapshot

\* C16: dequeue() on an empty (or absent) Q returns (None, None), does not
\* call the predicate and leaves Q and the snapshot as they are, also when
\* the snapshot holds an item that is not in Q.
C16_EmptyQueue == [][\A w \in Workers : EmptyQueueLeftAlone(w)]_vars

\* an attempt has found Q empty while the snapshot holds an item, and is
\* about to commit
C16_Witness ==
    \E w \in Workers :
        /\ pc[w] = "exec"
        /\ elig[w] = "unknown"
        /\ next_item[w] = NoItem
        /\ ~dirty[w]
        /\ Q = EmptyZSet
        /\ snapshot # EmptyZSet

\* what C17 asks of the steps of worker w: the probes of the recovery write
\* nothing; without a snapshot, or with the two cardinalities read equal,
\* run() goes on to its loop at once; dequeue() is entered from the loop
\* only, and the loop never goes back into the recovery
RecoveryOnceAndNoOp(w) ==
    /\ (pc[w] = "start" /\ pc'[w] # "start")
          => /\ Q' = Q /\ snapshot' = snapshot
             /\ ~Exists(snapshot) => pc'[w] = "loop"
    /\ (pc[w] = "zcard_q" /\ pc'[w] = "zcard_s")
          => Q' = Q /\ snapshot' = snapshot
    /\ (pc[w] = "zcard_s" /\ pc'[w] \in {"recover", "loop"})
          => /\ Q' = Q /\ snapshot' = snapshot
             /\ qcard[w] = ZCard(snapshot) => pc'[w] = "loop"
    /\ (pc'[w] = "watch") => pc[w] \in RunPcs
    /\ (pc[w] \in RunPcs) => pc'[w] \notin RecoveryPcs \ {"start"}

\* C17: the recovery runs once, before the first dequeue() of run(), and
\* changes neither Q nor the snapshot when there is no snapshot or when the
\* two cardinalities are equal.
C17_RecoveryNoOp == [][\A w \in Workers : RecoveryOnceAndNoOp(w)]_vars

\* run() has read equal cardinalities of a Q and a snapshot that differ
C17_Witness ==
    \E w \in Workers :
        /\ pc[w] = "zcard_s"
        /\ Exists(snapshot)
        /\ qcard[w] = ZCard(snapshot)
        /\ qcard[w] = ZCard(Q)
        /\ Q # snapshot

\* what C18 asks of the steps of worker w: the first iteration and the one
\* after a processed and cleaned up item start without sleeping, the one
\* after an iteration that got no item or whose process raised starts with
\* the sleep, and nothing else decides
BackoffScheduled(w) ==
    /\ (pc[w] \in RecoveryPcs /\ pc'[w] = "loop") => ~sleep_between_runs'[w]
    /\ (pc[w] = "cleanup" /\ pc'[w] = "loop") => ~sleep_between_runs'[w]
    /\ (pc[w] = "ret" /\ pc'[w] = "loop") => sleep_between_runs'[w]
    /\ (pc[w] = "process" /\ pc'[w] = "loop") => sleep_between_runs'[w]
    /\ (pc[w] = "loop" /\ pc'[w] = "loop")
          => sleep_between_runs'[w] = sleep_between_runs[w]
    /\ (pc[w] = "loop" /\ pc'[w] \in {"sleep", "watch"})
          => (pc'[w] = "sleep" <=> sleep_between_runs[w])
    /\ (pc'[w] = "sleep") => pc[w] \in {"loop", "sleep"}

\* C18: the loop sleeps before an iteration exactly when the iteration
\* before it got no item from dequeue() or ended with an error of process;
\* it does not sleep before the first iteration nor after an iteration that
\* processed and cleaned up its item.
C18_BackoffScheduling == [][\A w \in Workers : BackoffScheduled(w)]_vars

\* a worker sleeps after an iteration whose process raised
C18_Witness ==
    \E w \in Workers : pc[w] = "sleep" /\ next_item[w] # NoItem

\* C19: between two iterations of the run loop, the backoff sleep included,
\* the in-flight marker is (None, None) whatever the last iteration did,
\* and a shutdown signal that arrives there enqueues nothing.
C19_MarkerCleared ==
    [][\A w \in Workers :
          /\ (pc'[w] \in {"loop", "sleep"}) => next_item'[w] = NoItem
          /\ (pc[w] \in {"loop", "sleep"} /\ pc'[w] = "done") => Q' = Q]_vars

\* C20: the recovery a worker runs at the start of run() does not put back
\* into Q a member that another, live worker has claimed and is processing.
C20_RecoveryKeepsClaims ==
    [][\A w, v \in Workers :
          (/\ w # v
           /\ pc[w] \in RecoveryPcs
           /\ pc'[w] # pc[w]
           /\ pc[v] = "process"
           /\ pc'[v] = "process"
           /\ Member(next_item[v]) \notin DOMAIN Q)
          => Member(next_item[v]) \notin DOMAIN Q']_vars

====
